---- MODULE Spec2Model ----
(***************************************************************************)
(* chromatic_tuner: the frequency-estimation pipeline of freq_analysis.c   *)
(* (smoothing, interference profile, peak scan, wavelength reduction) and  *)
(* the two-core program of tuner.c around it (ADC sample DMA, core 0's     *)
(* acquisition loop, the inter-core FIFO, core 1's interrupt handler).     *)
(*                                                                         *)
(* C arrays are functions on 0..n-1.  A float is the exact rational        *)
(* [n |-> numerator, d |-> denominator] in lowest terms (d = 0: the        *)
(* quotient of a division by zero); float rounding is not modelled.        *)
(***************************************************************************)
EXTENDS Integers, Sequences, FiniteSets, TLC

(* ------------------------------ macros.h ------------------------------ *)
NUM_SAMPLES == 1500
SHIFT_LIMIT == 1250
SMA_WIDTH == 20
PEAK_SEARCH_RANGE == 15
PEAK_TRACKING_LIMIT == 10
INTERFERENCE_THRESHOLD == 3000
DEFAULT_VAL == 100
FS == 44000
(* limits.h, 32-bit int *)
INT_MAX == 2147483647

(* ------------------------------- bounds ------------------------------- *)
\* Raw windows handed to the smoothing stage alone are 1520 - k samples
\* long, k in 0..MaxShort.
MaxShort == 3
\* Constant raw windows: amplitudes (k * 255) \div NumConst, k in 0..NumConst.
NumConst == 2
\* Saw-tooth raw windows: periods 30 + k * (1170 \div NumSaw), k in 0..NumSaw,
\* besides the fixed short periods.
NumSaw == 9
\* Synthetic interference profiles: seeds 0..NumSeeds.
NumSeeds == 30
\* Core 0 starts at most MaxRuns passes of its loop.
MaxRuns == 3
\* Entries the inter-core FIFO holds before a push blocks (8 on the RP2040).
FifoDepth == 2
\* One step of the smoothing loop covers SmaStride passes, one step of the
\* profile loop ProfileStride passes, one step of the sample transfer
\* DmaBurst samples.
SmaStride == 100
ProfileStride == 125
DmaBurst == 760
\* A loop over an array is evaluated in stretches of at most this many
\* iterations (evaluation depth only; the result does not depend on it).
Chunk == 16

(* ------------------------------ helpers ------------------------------- *)
Min(a, b) == IF a < b THEN a ELSE b

abs(x) == IF x < 0 THEN -x ELSE x

RECURSIVE Gcd(_, _)
Gcd(a, b) == IF b = 0 THEN a ELSE Gcd(b, a % b)

\* The float n/d, in lowest terms.
Rat(n, d) ==
    LET g == Gcd(n, d)
    IN IF g = 0 THEN [n |-> 0, d |-> 0] ELSE [n |-> n \div g, d |-> d \div g]

RatAdd(x, y) == Rat(x.n * y.d + y.n * x.d, x.d * y.d)

RatDiv(x, y) == Rat(x.n * y.d, x.d * y.n)

\* a / b < c / d for a, c >= 0 and b, d > 0, by integer parts and then the
\* remainders inverted (no product is formed, so nothing exceeds 32 bits).
RECURSIVE FracLess(_, _, _, _)
FracLess(a, b, c, d) ==
    IF a \div b # c \div d THEN a \div b < c \div d
    ELSE IF c % d = 0 THEN FALSE
    ELSE IF a % b = 0 THEN TRUE
    ELSE FracLess(d, c % d, b, a % b)

RatLess(x, y) ==
    IF x.d <= 0 \/ y.d <= 0 THEN x.n * y.d < y.n * x.d
    ELSE IF x.n < 0 /\ y.n >= 0 THEN TRUE
    ELSE IF x.n >= 0 /\ y.n < 0 THEN FALSE
    ELSE IF x.n < 0 THEN FracLess(-y.n, y.d, -x.n, x.d)
    ELSE FracLess(x.n, x.d, y.n, y.d)

(* --------------------------- freq_analysis.c -------------------------- *)
\* array[j] of a uint8_t buffer of len elements: past its end the read
\* returns whatever byte lies there (garbage).
ReadByte(array, len, j, garbage) ==
    IF j < len THEN array[j] ELSE garbage

RECURSIVE sma_sum(_, _, _, _, _, _)
sma_sum(i, sum, index, array, len, garbage) ==
    IF i <= SMA_WIDTH
    THEN sma_sum(i + 1, (sum + ReadByte(array, len, index + i, garbage)) % 65536,
                 index, array, len, garbage)
    ELSE sum

\* Mutant: the sum of SMA_WIDTH + 1 samples divided by SMA_WIDTH.
calculate_sma_width(index, array, len, garbage) ==
    sma_sum(0, 0, index, array, len, garbage) \div SMA_WIDTH

\* array holds len elements (the C function is not told len).
calculate_sma(index, array, len, garbage) ==
    sma_sum(0, 0, index, array, len, garbage) \div (SMA_WIDTH + 1)

\* The indices calculate_sma(index, .) reads.
sma_reads(index) == {index + i : i \in 0..SMA_WIDTH}

\* Mutant: the early return commented out.
ThresholdExceeded_off(power_diff) == FALSE

\* if (power_diff > INTERFERENCE_THRESHOLD) return INT_MAX;
ThresholdExceeded(power_diff) == power_diff > INTERFERENCE_THRESHOLD

\* The loop of calculate_interference_pwr.  loop[i, power_diff, stop] runs
\* iterations i .. stop-1 in order, and is INT_MAX once the loop has
\* returned INT_MAX (a running sum never reaches INT_MAX otherwise: it is
\* at most INTERFERENCE_THRESHOLD + 255).  split runs the iterations
\* lo .. hi-1 in the same order, first half then second half, which only
\* keeps the evaluation shallow.
calculate_interference_pwr(shift, array) ==
    LET loop[i \in Nat, power_diff \in Nat, stop \in Nat] ==
            IF i < stop
            THEN LET p == power_diff + abs(array[i] - array[i + shift])
                 IN IF ThresholdExceeded(p) THEN INT_MAX ELSE loop[i + 1, p, stop]
            ELSE power_diff
        split[lo \in Nat, hi \in Nat, power_diff \in Nat] ==
            IF hi - lo <= Chunk
            THEN loop[lo, power_diff, hi]
            ELSE LET mid == (lo + hi) \div 2
                     r == split[lo, mid, power_diff]
                 IN IF r = INT_MAX THEN INT_MAX ELSE split[mid, hi, r]
    IN split[0, NUM_SAMPLES - shift, 0]

\* if (array[begin_index + i] < array[min_index])
RECURSIVE min_loop(_, _, _, _, _)
min_loop(i, min_index, array, begin_index, range) ==
    IF i < range
    THEN min_loop(i + 1,
                  IF array[begin_index + i] < array[min_index]
                  THEN begin_index + i ELSE min_index,
                  array, begin_index, range)
    ELSE min_index

\* Mutant: <= in place of <, the last occurrence of the minimum.
RECURSIVE min_loop_last(_, _, _, _, _)
min_loop_last(i, min_index, array, begin_index, range) ==
    IF i < range
    THEN min_loop_last(i + 1,
                       IF array[begin_index + i] <= array[min_index]
                       THEN begin_index + i ELSE min_index,
                       array, begin_index, range)
    ELSE min_index

min_in_range_last(array, begin_index, range) ==
    min_loop_last(0, begin_index, array, begin_index, range)

min_in_range(array, begin_index, range) ==
    min_loop(0, begin_index, array, begin_index, range)

\* The indices min_in_range(array, begin_index, range) reads.
min_in_range_reads(begin_index, range) ==
    {begin_index + i : i \in 0..(range - 1)}

\* Mutant: the loop bound without the room for the next window.
ScanContinues_nomargin(i) == i < SHIFT_LIMIT

\* for (...; i < SHIFT_LIMIT - PEAK_SEARCH_RANGE - PEAK_SEARCH_RANGE; ...)
ScanContinues(i) == i < SHIFT_LIMIT - PEAK_SEARCH_RANGE - PEAK_SEARCH_RANGE

\* Mutant: the comparison with the previous window's minimum left out.
IsCandidate_nextonly(array, prev_min_index, current_min_index, next_min_index) ==
    array[next_min_index] > array[current_min_index]

\* if (array[prev_min_index] > array[current_min_index] &&
\*     array[next_min_index] > array[current_min_index])
IsCandidate(array, prev_min_index, current_min_index, next_min_index) ==
    /\ array[prev_min_index] > array[current_min_index]
    /\ array[next_min_index] > array[current_min_index]

\* if (current_min_index > 0 &&
\*     array[current_min_index - 1] < array[current_min_index]) break;
HarmonicReject(array, current_min_index) ==
    /\ current_min_index > 0
    /\ array[current_min_index - 1] < array[current_min_index]

\* Mutant: > in place of >=.
LimitReached_gt(peak_count) == peak_count > PEAK_TRACKING_LIMIT

\* if (*peak_count >= PEAK_TRACKING_LIMIT) return;
LimitReached(peak_count) == peak_count >= PEAK_TRACKING_LIMIT

\* The frame of calculate_peaks after lines 16-17, before the first
\* iteration.  exit: "none" while in the loop, then how the loop was left
\* ("range": loop condition false, "limit": return, "harmonic": break).
\* reads, writes: the indices of array read, of peaks written, by the step.
PeaksEntry(peaks, peak_count, array) ==
    [prev_min_index    |-> min_in_range(array, 0, PEAK_SEARCH_RANGE),
     current_min_index |-> min_in_range(array, PEAK_SEARCH_RANGE, PEAK_SEARCH_RANGE),
     next_min_index    |-> 0,
     i                 |-> PEAK_SEARCH_RANGE,
     peaks             |-> peaks,
     peak_count        |-> peak_count,
     exit              |-> "none",
     candidate         |-> FALSE,
     reads             |-> min_in_range_reads(0, PEAK_SEARCH_RANGE)
                           \cup min_in_range_reads(PEAK_SEARCH_RANGE, PEAK_SEARCH_RANGE),
     writes            |-> {}]

\* One pass through the loop of calculate_peaks (lines 20-41).
PeaksStep(s, array) ==
    IF ~ScanContinues(s.i)
    THEN [s EXCEPT !.exit = "range", !.candidate = FALSE, !.reads = {}, !.writes = {}]
    ELSE
    LET next == min_in_range(array, s.i + PEAK_SEARCH_RANGE, PEAK_SEARCH_RANGE)
        cand == IsCandidate(array, s.prev_min_index, s.current_min_index, next)
        rd   == min_in_range_reads(s.i + PEAK_SEARCH_RANGE, PEAK_SEARCH_RANGE)
                \cup {s.prev_min_index, s.current_min_index}
                \cup (IF array[s.prev_min_index] > array[s.current_min_index]
                      THEN {next} ELSE {})
                \cup (IF cand /\ s.current_min_index > 0
                      THEN {s.current_min_index - 1} ELSE {})
        count == (s.peak_count + 1) % 256
        t == [s EXCEPT !.next_min_index = next, !.candidate = cand,
                       !.reads = rd, !.writes = {}]
        slide(u) == [u EXCEPT !.prev_min_index = s.current_min_index,
                              !.current_min_index = next,
                              !.i = s.i + PEAK_SEARCH_RANGE]
    IN IF cand
       THEN IF HarmonicReject(array, s.current_min_index)
            THEN [t EXCEPT !.exit = "harmonic"]
            ELSE LET w == [t EXCEPT !.peak_count = count,
                                    !.peaks = [k \in DOMAIN s.peaks |->
                                                 IF k = count - 1
                                                 THEN s.current_min_index
                                                 ELSE s.peaks[k]],
                                    !.writes = {count - 1}]
                 IN IF LimitReached(count)
                    THEN [w EXCEPT !.exit = "limit"]
                    ELSE slide(w)
       ELSE slide(t)

\* Up to n passes through the loop, from frame s.
RECURSIVE PeaksRun(_, _, _)
PeaksRun(s, array, n) ==
    IF n = 0 \/ s.exit # "none" THEN s
    ELSE IF n = 1 THEN PeaksStep(s, array)
    ELSE LET half == CHOOSE r \in {PeaksRun(s, array, n \div 2)} : TRUE
         IN PeaksRun(half, array, n - n \div 2)

calculate_peaks(peaks, peak_count, array) ==
    PeaksRun(PeaksEntry(peaks, peak_count, array), array, NUM_SAMPLES)

\* sum += (float)peaks[i] / (float)(i + 1);
RECURSIVE avg_sum(_, _, _, _)
avg_sum(i, sum, peaks, peak_count) ==
    IF i < peak_count
    THEN avg_sum(i + 1, RatAdd(sum, Rat(peaks[i], i + 1)), peaks, peak_count)
    ELSE sum

\* Mutant: the plain mean of the peaks, without the division by the rank.
RECURSIVE plain_sum(_, _, _, _)
plain_sum(i, sum, peaks, peak_count) ==
    IF i < peak_count
    THEN plain_sum(i + 1, RatAdd(sum, Rat(peaks[i], 1)), peaks, peak_count)
    ELSE sum

calculate_avg_wavelength_norank(peaks, peak_count) ==
    IF peak_count = 0
    THEN Rat(DEFAULT_VAL, 1)
    ELSE RatDiv(plain_sum(0, Rat(0, 1), peaks, peak_count), Rat(peak_count, 1))

\* Mutant: without the default for an empty peak list.
calculate_avg_wavelength_nodefault(peaks, peak_count) ==
    RatDiv(avg_sum(0, Rat(0, 1), peaks, peak_count), Rat(peak_count, 1))

calculate_avg_wavelength(peaks, peak_count) ==
    IF peak_count = 0
    THEN Rat(DEFAULT_VAL, 1)
    ELSE RatDiv(avg_sum(0, Rat(0, 1), peaks, peak_count), Rat(peak_count, 1))

\* float frequency = FS / avg_wavelength;
FrequencyOf(avg_wavelength) == RatDiv(Rat(FS, 1), avg_wavelength)

\* calculate_freq, lines 82-94, on the smoothed samples; peaks is the
\* uninitialised local array as it is found on the stack.
Profile(array) ==
    [shift \in 0..(NUM_SAMPLES - 1) |-> calculate_interference_pwr(shift, array)]

calculate_freq(array, peaks) ==
    LET s == calculate_peaks(peaks, 0, Profile(array))
    IN FrequencyOf(calculate_avg_wavelength(s.peaks, s.peak_count))

(* ------------------------------- inputs ------------------------------- *)
RawLen == NUM_SAMPLES + SMA_WIDTH

\* Amplitudes of the constant raw windows.
ConstAmps == {(k * 255) \div NumConst : k \in 0..NumConst}

\* Periods of the 0-255 saw-tooth raw windows.
SawPeriods ==
    {15, 20, 29, 31, 100} \cup {30 + k * (1170 \div NumSaw) : k \in 0..NumSaw}

\* What an uninitialised uint16_t / a byte past the end of a buffer may hold.
UninitWords == {0, 65535}

GarbageBytes == {0, 255}

\* Sample j of a raw window: constant amplitude a, or the 0-255 saw-tooth
\* of period a.
Wave(input, j) ==
    IF input.kind = "const" THEN input.a
    ELSE IF input.kind = "warble"
    THEN (((j * 6) % input.a) * 200) \div input.a + ((2 * j) % 29)
    ELSE ((j % input.a) * 256) \div input.a

Window(input) == [j \in 0..(input.len - 1) |-> Wave(input, j)]

Inputs ==
    [kind : {"const"}, a : ConstAmps, len : {RawLen}]
    \cup [kind : {"saw"}, a : SawPeriods, len : {RawLen}]

\* Windows for the interference profile alone: flat, steep, and shallow
\* enough that many running sums stay below the threshold.
ProfileInputs ==
    [kind : {"const"}, a : {255}, len : {RawLen}]
    \cup [kind : {"saw"}, a : {20, 100, 1200}, len : {RawLen}]

\* Windows for the whole path from the raw window to the display: saw-tooth
\* windows, and a 0-199 saw-tooth of period 1235 / 6 samples carrying a
\* ripple of period 29 and height 28.
NoteInputs ==
    [kind : {"saw"}, a : {100, 150, 200}, len : {RawLen}]
    \cup [kind : {"warble"}, a : {1235}, len : {RawLen}]

\* Windows for the smoothing stage alone, some shorter than RawLen.
SmaInputs ==
    [kind : {"saw"}, a : {100, 400},
     len : {RawLen - k : k \in 0..MaxShort} \cup {NUM_SAMPLES}]

\* A synthetic interference profile: 0 at shift 0, elsewhere a value in
\* 0..INTERFERENCE_THRESHOLD or INT_MAX, with a per-window level and a
\* per-shift ripple; odd seeds are INT_MAX from some shift on.
SynthValue(seed, j) ==
    LET w     == j \div PEAK_SEARCH_RANGE
        base  == (w * w * (seed + 3) + w * (2 * seed + 1) + seed) % 7
        noise == (j * (seed + 5) + ((j * j) % 11) + seed * w) % 5
        v     == (base * 3 + noise) * (IF seed % 4 = 1 THEN 150 ELSE 1)
        cut   == 100 + ((seed * 37) % 900)
    IN IF \/ seed % 2 = 1 /\ j >= cut
          \/ v > INTERFERENCE_THRESHOLD
          \/ seed % 3 = 0 /\ v >= 14
       THEN INT_MAX ELSE v

SynthProfile(seed) ==
    [j \in 0..(NUM_SAMPLES - 1) |-> IF j = 0 THEN 0 ELSE SynthValue(seed, j)]

\* The ADC: sample j of the acq-th acquisition (a saw-tooth whose period
\* differs from one acquisition to the next).
AdcPeriod(acq) == 100 + 50 * acq

AdcSample(acq, j) == Wave([kind |-> "saw", a |-> AdcPeriod(acq)], j)

(* ----------------------------- the state ------------------------------ *)
VARIABLES
    input,          \* which raw window the run is given (not program state)
    samples_buff,   \* tuner.c: uint8_t samples_buff[NUM_SAMPLES + SMA_WIDTH]
    samples,        \* core0_thread: uint8_t samples[NUM_SAMPLES]
    i,              \* core0_thread: the smoothing loop's i
    oob,            \* the raw-window indices read past the end of the window
    interference,   \* calculate_freq: int32_t interference[NUM_SAMPLES]
    shift,          \* calculate_freq: the profile loop's shift
    scan,           \* calculate_freq: peaks, peak_count and the frame of calculate_peaks
    avg_wavelength, \* calculate_freq: float avg_wavelength
    frequency,      \* core0_thread: float frequency
    pc,             \* where core 0 is
    dma,            \* the sample channel: BUSY, write address (index), transfers left
    acq,            \* how many acquisitions the sample channel has been started for
    fifo,           \* the inter-core FIFO, core 0 to core 1
    pc1,            \* where core 1 is
    display,        \* the segments last written by update_display
    leds,           \* the indicator last lit by update_leds
    pushed,         \* every value core 0 has pushed, in order (not program state)
    popped,         \* every value core 1 has popped, in order (not program state)
    runs            \* how many times calculate_freq has returned (not program state)

pipe == <<samples, i, oob, interference, shift, scan, avg_wavelength, frequency>>

core1 == <<pc1, display, leds, popped>>

vars == <<input, samples_buff, samples, i, oob, interference, shift, scan,
          avg_wavelength, frequency, pc, dma, acq, fifo, pc1, display, leds,
          pushed, popped, runs>>

\* An element of a local array that has not been written yet.
Unwritten == -1

NewArray(n) == [k \in 0..(n - 1) |-> Unwritten]

NoFloat == [n |-> 0, d |-> 0]

NoScan == [prev_min_index |-> 0, current_min_index |-> 0, next_min_index |-> 0,
           i |-> 0, peaks |-> NewArray(PEAK_TRACKING_LIMIT), peak_count |-> 0,
           exit |-> "none", candidate |-> FALSE, reads |-> {}, writes |-> {}]

\* uint8_t peak_count = 0; uint16_t peaks[PEAK_TRACKING_LIMIT]; (lines 88-89)
FreshScan(w) ==
    [NoScan EXCEPT !.peaks = [k \in 0..(PEAK_TRACKING_LIMIT - 1) |-> w]]

DmaIdle == [busy |-> FALSE, write_addr |-> RawLen, trans_count |-> 0]

\* dma_channel_configure(sample_channel, ..., samples_buff, ..., NUM_SAMPLES + SMA_WIDTH, ...)
\* once triggered.
DmaStarted == [busy |-> TRUE, write_addr |-> 0, trans_count |-> RawLen]

\* Core 1 and the FIFO before anything is pushed; init_segment_display and
\* init_leds leave every pin low (gpio_init clears the output).
InitCore1 ==
    /\ fifo = <<>>
    /\ pc1 = "entry"
    /\ display = 0
    /\ leds = "none"
    /\ pushed = <<>>
    /\ popped = <<>>
    /\ runs = 0

\* Core 0 has the raw window `input` in samples_buff, the transfer has
\* finished and core 0 enters the smoothing loop (tuner.c line 95).
InitRun(inputs) ==
    /\ input \in inputs
    /\ samples_buff = Window(input)
    /\ samples = NewArray(NUM_SAMPLES)
    /\ i = 0
    /\ oob = {}
    /\ interference = NewArray(NUM_SAMPLES)
    /\ shift = 0
    /\ scan = NoScan
    /\ avg_wavelength = NoFloat
    /\ frequency = NoFloat
    /\ pc = "sma"
    /\ dma = DmaIdle
    /\ acq = 1
    /\ InitCore1

Init == InitRun(Inputs)

(* ------------------------- core 0, step by step ----------------------- *)
\* tuner.c lines 95-98: samples[i] = calculate_sma(i, samples_buff); for
\* the next SmaStride values of i.
SmoothStep ==
    /\ pc = "sma"
    /\ IF i < NUM_SAMPLES
       THEN LET stop == Min(i + SmaStride, NUM_SAMPLES)
                past == {j \in UNION {sma_reads(k) : k \in i..(stop - 1)} :
                           j >= input.len}
            IN \E g \in (IF past = {} THEN {0} ELSE GarbageBytes) :
                 /\ samples' = [k \in 0..(NUM_SAMPLES - 1) |->
                                  IF i <= k /\ k < stop
                                  THEN calculate_sma(k, samples_buff, input.len, g) % 256
                                  ELSE samples[k]]
                 /\ oob' = oob \cup past
                 /\ i' = stop
                 /\ pc' = pc
       ELSE /\ pc' = "restart"
            /\ UNCHANGED <<samples, oob, i>>
    /\ UNCHANGED <<input, samples_buff, interference, shift, scan, avg_wavelength,
                   frequency, dma, acq, fifo, core1, pushed, runs>>

\* dma_channel_start(control_channel): the control channel copies
\* samples_buff_ptr into the sample channel's write address and chains to
\* the sample channel, which starts (reloading its transfer count) unless
\* it is still busy.  The one unpaced control transfer takes a few bus
\* cycles, which is over before core 0 has executed its next statement.
dma_channel_start(d) ==
    IF d.busy THEN [d EXCEPT !.write_addr = 0] ELSE DmaStarted

\* tuner.c line 101.
Restart ==
    /\ pc = "restart"
    /\ dma' = dma_channel_start(dma)
    /\ acq' = IF dma.busy THEN acq ELSE acq + 1
    /\ pc' = "profile"
    /\ shift' = 0
    /\ UNCHANGED <<input, samples_buff, samples, i, oob, interference, scan,
                   avg_wavelength, frequency, fifo, core1, pushed, runs>>

\* calculate_freq lines 82-89: interference[shift] =
\* calculate_interference_pwr(shift, array); for the next ProfileStride
\* values of shift; then peak_count = 0 and the uninitialised peaks array.
ProfileStep ==
    /\ pc = "profile"
    /\ IF shift < NUM_SAMPLES
       THEN LET stop == Min(shift + ProfileStride, NUM_SAMPLES)
            IN /\ interference' = [k \in 0..(NUM_SAMPLES - 1) |->
                                     IF shift <= k /\ k < stop
                                     THEN calculate_interference_pwr(k, samples)
                                     ELSE interference[k]]
               /\ shift' = stop
               /\ UNCHANGED <<scan, pc>>
       ELSE /\ \E w \in UninitWords : scan' = FreshScan(w)
            /\ pc' = "peaks"
            /\ UNCHANGED <<interference, shift>>
    /\ UNCHANGED <<input, samples_buff, samples, i, oob, avg_wavelength, frequency,
                   dma, acq, fifo, core1, pushed, runs>>

\* calculate_peaks lines 16-17.
PeaksEnter ==
    /\ pc = "peaks"
    /\ scan' = PeaksEntry(scan.peaks, scan.peak_count, interference)
    /\ pc' = "scan"
    /\ UNCHANGED <<input, samples_buff, samples, i, oob, interference, shift,
                   avg_wavelength, frequency, dma, acq, fifo, core1, pushed, runs>>

\* calculate_peaks lines 20-41, one pass.
PeaksLoop ==
    /\ pc = "scan"
    /\ scan' = PeaksStep(scan, interference)
    /\ pc' = IF scan'.exit = "none" THEN "scan" ELSE "avg"
    /\ UNCHANGED <<input, samples_buff, samples, i, oob, interference, shift,
                   avg_wavelength, frequency, dma, acq, fifo, core1, pushed, runs>>

\* calculate_freq line 92.
Average ==
    /\ pc = "avg"
    /\ avg_wavelength' = calculate_avg_wavelength(scan.peaks, scan.peak_count)
    /\ pc' = "freq"
    /\ UNCHANGED <<input, samples_buff, samples, i, oob, interference, shift, scan,
                   frequency, dma, acq, fifo, core1, pushed, runs>>

\* calculate_freq lines 93-94, tuner.c line 104.
Frequency ==
    /\ pc = "freq"
    /\ frequency' = FrequencyOf(avg_wavelength)
    /\ runs' = runs + 1
    /\ pc' = "push"
    /\ UNCHANGED <<input, samples_buff, samples, i, oob, interference, shift, scan,
                   avg_wavelength, dma, acq, fifo, core1, pushed>>

\* One pass of core 0 through the body of its loop, from the smoothing loop
\* to the frequency, on each raw window of Inputs; the sample transfer and
\* core 1 are not run.
Next ==
    \/ SmoothStep
    \/ Restart
    \/ ProfileStep
    \/ PeaksEnter
    \/ PeaksLoop
    \/ Average
    \/ Frequency

Spec == Init /\ [][Next]_vars

\* The smoothing loop alone, on windows some of which are too short.
InitSma == InitRun(SmaInputs)

SpecSma == InitSma /\ [][SmoothStep]_vars

\* The smoothing and profile loops alone.
InitProfile == InitRun(ProfileInputs)

NextProfile == SmoothStep \/ Restart \/ ProfileStep

SpecProfile == InitProfile /\ [][NextProfile]_vars

\* calculate_peaks and the reduction alone, entered with a synthetic profile.
InitPeaks ==
    /\ input \in [kind : {"profile"}, a : 0..NumSeeds, len : {RawLen}]
    /\ samples_buff = NewArray(RawLen)
    /\ samples = NewArray(NUM_SAMPLES)
    /\ i = NUM_SAMPLES
    /\ oob = {}
    /\ interference = SynthProfile(input.a)
    /\ shift = NUM_SAMPLES
    /\ scan \in {FreshScan(w) : w \in UninitWords}
    /\ avg_wavelength = NoFloat
    /\ frequency = NoFloat
    /\ pc = "peaks"
    /\ dma = DmaIdle
    /\ acq = 1
    /\ InitCore1

NextPeaks == PeaksEnter \/ PeaksLoop \/ Average \/ Frequency

SpecPeaks == InitPeaks /\ [][NextPeaks]_vars

(* ------------------------------- macros.h ----------------------------- *)
\* The segments of each note (bit 7 = segment A ... bit 0 = the point).
A_note == 17
A_sharp_note == 16
B_note == 193
C_note == 99
C_sharp_note == 98
D_note == 133
D_sharp_note == 132
E_note == 97
F_note == 113
F_sharp_note == 112
G_note == 67
G_sharp_note == 66

A3_bottom_range == Rat(21374, 100)
A3_sharp_bottom_range == Rat(22645, 100)
B3_bottom_range == Rat(23991, 100)
C3_bottom_range == Rat(25418, 100)
C3_sharp_bottom_range == Rat(26929, 100)
D3_bottom_range == Rat(28530, 100)
D3_sharp_bottom_range == Rat(30227, 100)
E3_bottom_range == Rat(32025, 100)
F3_bottom_range == Rat(33929, 100)
F3_sharp_bottom_range == Rat(35946, 100)
G3_bottom_range == Rat(380849, 1000)
G3_sharp_bottom_range == Rat(40348, 100)
A4_bottom_range == Rat(42747, 100)

A3_freq == Rat(22000, 100)
A3_sharp_freq == Rat(23308, 100)
B3_freq == Rat(24694, 100)
C3_freq == Rat(26163, 100)
C3_sharp_freq == Rat(27718, 100)
D3_freq == Rat(29366, 100)
D3_sharp_freq == Rat(31113, 100)
E3_freq == Rat(32963, 100)
F3_freq == Rat(34923, 100)
F3_sharp_freq == Rat(36999, 100)
G3_freq == Rat(39200, 100)
G3_sharp_freq == Rat(41530, 100)

TUNE_PRECISION == Rat(7, 10)

(* ---------------------- tuner.c: core 1, the handler ------------------ *)
RatSub(x, y) == Rat(x.n * y.d - y.n * x.d, x.d * y.d)

RatNeg(x) == [n |-> -x.n, d |-> x.d]

\* update_leds, lines 145-165: which indicator is lit.
update_leds(freq, refference_frequency) ==
    LET diff == RatSub(freq, refference_frequency)
    IN IF RatLess(diff, RatNeg(TUNE_PRECISION)) THEN "low"
       ELSE IF RatLess(TUNE_PRECISION, diff) THEN "high"
       ELSE "in"

\* while (frequency < A3_bottom_range) frequency *= 2;  (lines 186-187)
\* A value that is not positive stays below the range for ever.
DoublingHangs(freq) == RatLess(freq, A3_bottom_range) /\ freq.n <= 0

RECURSIVE Doubled(_)
Doubled(freq) ==
    IF RatLess(freq, A3_bottom_range) /\ ~DoublingHangs(freq)
    THEN Doubled(Rat(2 * freq.n, freq.d))
    ELSE freq

\* while (frequency > A4_bottom_range) frequency /= 2;  (lines 188-189)
\* An infinite value stays above the range for ever.
HalvingHangs(freq) == RatLess(A4_bottom_range, freq) /\ freq.d = 0

RECURSIVE Halved(_)
Halved(freq) ==
    IF RatLess(A4_bottom_range, freq) /\ ~HalvingHangs(freq)
    THEN Halved(Rat(freq.n, 2 * freq.d))
    ELSE freq

Normalised(freq) == Halved(Doubled(freq))

NormaliseHangs(freq) == DoublingHangs(freq) \/ HalvingHangs(Doubled(freq))

\* The if / else if chain of lines 192-251, in order: the range, the
\* segments displayed and the reference frequency of each branch.
NoteRanges ==
    << [bottom |-> A3_bottom_range,       top |-> A3_sharp_bottom_range, note |-> A_note,       freq |-> A3_freq],
       [bottom |-> A3_sharp_bottom_range, top |-> B3_bottom_range,       note |-> A_sharp_note, freq |-> A3_sharp_freq],
       [bottom |-> B3_bottom_range,       top |-> C3_bottom_range,       note |-> B_note,       freq |-> B3_freq],
       [bottom |-> C3_bottom_range,       top |-> C3_sharp_bottom_range, note |-> C_note,       freq |-> C3_freq],
       [bottom |-> C3_sharp_bottom_range, top |-> D3_bottom_range,       note |-> C_sharp_note, freq |-> C3_sharp_freq],
       [bottom |-> D3_bottom_range,       top |-> D3_sharp_bottom_range, note |-> D_note,       freq |-> D3_freq],
       [bottom |-> D3_sharp_bottom_range, top |-> E3_bottom_range,       note |-> D_sharp_note, freq |-> D3_sharp_freq],
       [bottom |-> E3_bottom_range,       top |-> F3_bottom_range,       note |-> E_note,       freq |-> E3_freq],
       [bottom |-> F3_bottom_range,       top |-> F3_sharp_bottom_range, note |-> F_note,       freq |-> F3_freq],
       [bottom |-> F3_sharp_bottom_range, top |-> G3_bottom_range,       note |-> F_sharp_note, freq |-> F3_sharp_freq],
       [bottom |-> G3_bottom_range,       top |-> G3_sharp_bottom_range, note |-> G_note,       freq |-> G3_freq],
       [bottom |-> G3_sharp_bottom_range, top |-> A4_bottom_range,       note |-> G_sharp_note, freq |-> G3_sharp_freq] >>

InRange(freq, r) == RatLess(r.bottom, freq) /\ RatLess(freq, r.top)

\* The branch taken for a normalised frequency; 0 when no condition holds.
BranchOf(freq) ==
    IF \E b \in 1..Len(NoteRanges) : InRange(freq, NoteRanges[b])
    THEN CHOOSE b \in 1..Len(NoteRanges) :
             /\ InRange(freq, NoteRanges[b])
             /\ \A c \in 1..(b - 1) : ~InRange(freq, NoteRanges[c])
    ELSE 0

\* while (multicore_fifo_rvalid())  (line 175)
multicore_fifo_rvalid(f) == f # <<>>

\* multicore_fifo_push_blocking waits for room in the FIFO (line 109).
multicore_fifo_wready_always(f) == TRUE

multicore_fifo_wready(f) == Len(f) < FifoDepth

\* dma_channel_wait_for_finish_blocking(sample_channel)  (line 92)
WaitDone_nowait(d) == TRUE

WaitDone(d) == ~d.busy

(* --------------------- both cores and the transfer -------------------- *)
\* tuner.c line 92: core 0 leaves the wait once the sample channel is not
\* busy, and enters the smoothing loop (i = 0).
Core0Wait ==
    /\ pc = "wait"
    /\ runs < MaxRuns
    /\ WaitDone(dma)
    /\ i' = 0
    /\ pc' = "sma"
    /\ UNCHANGED <<input, samples_buff, samples, oob, interference, shift, scan,
                   avg_wavelength, frequency, dma, acq, fifo, core1, pushed, runs>>

\* tuner.c lines 107-109: the push waits for room; a write to a full FIFO
\* would be dropped by the hardware.
Core0Push ==
    /\ pc = "push"
    /\ multicore_fifo_wready(fifo)
    /\ fifo' = IF Len(fifo) < FifoDepth THEN Append(fifo, frequency) ELSE fifo
    /\ pushed' = Append(pushed, frequency)
    /\ pc' = "wait"
    /\ UNCHANGED <<input, samples_buff, samples, i, oob, interference, shift, scan,
                   avg_wavelength, frequency, dma, acq, core1, runs>>

\* The sample channel, paced by the ADC: the next DmaBurst samples of the
\* acquisition go to samples_buff at the write address.
DmaTransfer ==
    /\ dma.busy
    /\ LET n == Min(DmaBurst, dma.trans_count)
       IN /\ samples_buff' = [j \in 0..(RawLen - 1) |->
                                IF dma.write_addr <= j /\ j < dma.write_addr + n
                                THEN AdcSample(acq, j)
                                ELSE samples_buff[j]]
          /\ dma' = [busy        |-> dma.trans_count - n > 0,
                     write_addr  |-> dma.write_addr + n,
                     trans_count |-> dma.trans_count - n]
    /\ UNCHANGED <<input, samples, i, oob, interference, shift, scan, avg_wavelength,
                   frequency, pc, acq, fifo, core1, pushed, runs>>

\* core1_entry, lines 264-266: the handler is installed and the interrupt
\* enabled.
Core1Entry ==
    /\ pc1 = "entry"
    /\ pc1' = "idle"
    /\ UNCHANGED <<input, samples_buff, pipe, pc, dma, acq, fifo, display, leds,
                   pushed, popped, runs>>

\* SIO_IRQ_PROC1 is raised while the FIFO holds a value.
Core1Irq ==
    /\ pc1 = "idle"
    /\ multicore_fifo_rvalid(fifo)
    /\ pc1' = "handler"
    /\ UNCHANGED <<input, samples_buff, pipe, pc, dma, acq, fifo, display, leds,
                   pushed, popped, runs>>

\* core1_interrupt_handler, lines 175-252: one pass of the while loop.
HandlerPop ==
    /\ pc1 = "handler"
    /\ multicore_fifo_rvalid(fifo)
    /\ fifo' = Tail(fifo)
    /\ popped' = Append(popped, Head(fifo))
    /\ IF NormaliseHangs(Head(fifo))
       THEN /\ pc1' = "spin"
            /\ UNCHANGED <<display, leds>>
       ELSE LET freq == Normalised(Head(fifo))
                b    == BranchOf(freq)
            IN /\ display' = IF b = 0 THEN display ELSE NoteRanges[b].note
               /\ leds' = IF b = 0 THEN leds
                          ELSE update_leds(freq, NoteRanges[b].freq)
               /\ pc1' = pc1
    /\ UNCHANGED <<input, samples_buff, pipe, pc, dma, acq, pushed, runs>>

\* core1_interrupt_handler, lines 175 and 253: the FIFO is empty, the
\* handler returns.
HandlerReturn ==
    /\ pc1 = "handler"
    /\ ~multicore_fifo_rvalid(fifo)
    /\ pc1' = "idle"
    /\ UNCHANGED <<input, samples_buff, pipe, pc, dma, acq, fifo, display, leds,
                   pushed, popped, runs>>

\* main, lines 376-388: init_dma has started the sample channel on the
\* zero-initialised samples_buff, core 1 is launched and core 0 enters
\* core0_thread.
InitCore ==
    /\ input = [kind |-> "adc", a |-> 0, len |-> RawLen]
    /\ samples_buff = [j \in 0..(RawLen - 1) |-> 0]
    /\ samples = NewArray(NUM_SAMPLES)
    /\ i = 0
    /\ oob = {}
    /\ interference = NewArray(NUM_SAMPLES)
    /\ shift = 0
    /\ scan = NoScan
    /\ avg_wavelength = NoFloat
    /\ frequency = NoFloat
    /\ pc = "wait"
    /\ dma = DmaStarted
    /\ acq = 1
    /\ InitCore1

NextCore ==
    \/ Core0Wait
    \/ SmoothStep
    \/ Restart
    \/ ProfileStep
    \/ PeaksEnter
    \/ PeaksLoop
    \/ Average
    \/ Frequency
    \/ Core0Push
    \/ DmaTransfer
    \/ Core1Entry
    \/ Core1Irq
    \/ HandlerPop
    \/ HandlerReturn

SpecCore == InitCore /\ [][NextCore]_vars

\* One pass of core 0 from the smoothing loop to the push, on each raw
\* window of NoteInputs, and core 1 handling the value pushed.
InitNote == InitRun(NoteInputs)

NextNote ==
    \/ SmoothStep
    \/ Restart
    \/ ProfileStep
    \/ PeaksEnter
    \/ PeaksLoop
    \/ Average
    \/ Frequency
    \/ Core0Push
    \/ Core1Entry
    \/ Core1Irq
    \/ HandlerPop
    \/ HandlerReturn

SpecNote == InitNote /\ [][NextNote]_vars

(* ------------------------------ the claims ---------------------------- *)
\* array[j] = array[j + P] wherever both are inside the len elements.
IsPeriodic(array, len, P) ==
    \A j \in 0..(len - 1 - P) : array[j] = array[j + P]

\* What C1 says of a raw window of period P once its frequency is computed.
C1_Expected(P) ==
    /\ \A k \in 1..((NUM_SAMPLES - 1) \div P) : interference[k * P] = 0
    /\ scan.peak_count > 0
    /\ scan.peaks[0] = P
    /\ avg_wavelength = Rat(P, 1)
    /\ frequency = Rat(FS, P)

C2_ConstantWindow ==
    input.kind = "const" =>
        /\ pc = "sma" => \A k \in 0..(i - 1) : samples[k] = input.a
        /\ pc = "profile" => \A k \in 0..(shift - 1) : interference[k] = 0
        /\ scan.peak_count = 0
        /\ scan.writes = {}
        /\ pc = "push" =>
             /\ \A k \in 0..(NUM_SAMPLES - 1) : samples[k] = input.a
             /\ \A k \in 0..(NUM_SAMPLES - 1) : interference[k] = 0
             /\ avg_wavelength = Rat(DEFAULT_VAL, 1)
             /\ frequency = Rat(FS, DEFAULT_VAL)
             /\ frequency = Rat(440, 1)

C2_Witness ==
    /\ pc = "push"
    /\ input.kind = "const"
    /\ input.a = 255
    /\ samples[NUM_SAMPLES - 1] = 255
    /\ scan.exit = "range"
    /\ frequency = Rat(440, 1)

\* C3: at every point of the scan of calculate_peaks the peak count is at
\* most PEAK_TRACKING_LIMIT, every write goes to peaks[0..9], and the scan
\* has returned as soon as the count has reached the limit.
C3_PeakCountBounded ==
    /\ scan.peak_count <= PEAK_TRACKING_LIMIT
    /\ scan.writes \subseteq 0..(PEAK_TRACKING_LIMIT - 1)
    /\ scan.peak_count >= PEAK_TRACKING_LIMIT => (scan.exit = "limit" /\ pc # "scan")

\* The scan has returned with ten peaks while windows were left to scan.
C3_Witness ==
    /\ pc = "avg"
    /\ scan.exit = "limit"
    /\ scan.peak_count = PEAK_TRACKING_LIMIT
    /\ scan.writes = {PEAK_TRACKING_LIMIT - 1}
    /\ scan.i < SHIFT_LIMIT \div 2

\* C4: every index of the profile that calculate_peaks reads is
\* non-negative and strictly below SHIFT_LIMIT.
C4_ReadsBelowShiftLimit ==
    \A j \in scan.reads : 0 <= j /\ j < SHIFT_LIMIT

\* The last pass of a scan that ran to the end of the range: it read the
\* last window.
C4_Witness ==
    /\ pc = "scan"
    /\ ~ScanContinues(scan.i)
    /\ \E j \in scan.reads : j >= SHIFT_LIMIT - PEAK_SEARCH_RANGE

\* The aligned window k of the profile, its least value and the lowest
\* index holding it.
WindowOf(k) == (k * PEAK_SEARCH_RANGE)..(k * PEAK_SEARCH_RANGE + PEAK_SEARCH_RANGE - 1)

WindowMin(k) ==
    CHOOSE v \in {interference[j] : j \in WindowOf(k)} :
        \A j \in WindowOf(k) : v <= interference[j]

FirstMin(k) ==
    CHOOSE j \in WindowOf(k) :
        /\ interference[j] = WindowMin(k)
        /\ \A h \in WindowOf(k) : h < j => interference[h] > WindowMin(k)

\* C10: every shift in the peak list is the first-occurrence minimum of its
\* aligned window [15k, 15k+15), 1 <= k <= 81, its value is strictly below
\* the minima of the windows before and after, and the list is strictly
\* ascending.
C10_PeaksAreWindowDips ==
    pc \in {"scan", "avg", "freq", "push"} =>
        \A r \in 0..(scan.peak_count - 1) :
            LET p == scan.peaks[r]
                k == p \div PEAK_SEARCH_RANGE
            IN /\ 1 <= k /\ k <= 81
               /\ p = FirstMin(k)
               /\ interference[p] < WindowMin(k - 1)
               /\ interference[p] < WindowMin(k + 1)
               /\ r > 0 => scan.peaks[r - 1] < p

\* A peak whose window holds its minimum twice, and a peak at the first
\* index of its window.
C10_Witness ==
    /\ pc = "avg"
    /\ scan.peak_count >= 2
    /\ \E r \in 0..(scan.peak_count - 1) :
         \E j \in WindowOf(scan.peaks[r] \div PEAK_SEARCH_RANGE) :
             j > scan.peaks[r] /\ interference[j] = interference[scan.peaks[r]]
    /\ \E r \in 0..(scan.peak_count - 1) : scan.peaks[r] % PEAK_SEARCH_RANGE = 0

\* All the prefix sums of the differences |array[k] - array[k + shift]|,
\* k < NUM_SAMPLES - shift, summarised: their last (the full sum) and their
\* greatest.
PrefixSummary(sh, array) ==
    LET seg[lo \in Nat, hi \in Nat] ==
            IF hi <= lo THEN [sum |-> 0, top |-> 0]
            ELSE IF hi - lo = 1
            THEN [sum |-> abs(array[lo] - array[lo + sh]),
                  top |-> abs(array[lo] - array[lo + sh])]
            ELSE LET mid == (lo + hi) \div 2
                     x == seg[lo, mid]
                     y == seg[mid, hi]
                 IN [sum |-> x.sum + y.sum,
                     top |-> IF x.top > x.sum + y.top THEN x.top ELSE x.sum + y.top]
    IN seg[0, NUM_SAMPLES - sh]

\* C5: calculate_interference_pwr returns the full sum when no prefix of it
\* exceeds INTERFERENCE_THRESHOLD and INT_MAX when one does; every profile
\* element is in 0..3000 or INT_MAX, and the element at shift 0 is 0.
C5_SumOrSentinel ==
    (pc = "profile" /\ shift > 0) =>
        /\ interference[0] = 0
        /\ \A sh \in (shift - Min(shift, ProfileStride))..(shift - 1) :
             LET v == interference[sh]
                 g == PrefixSummary(sh, samples)
             IN /\ g.top <= INTERFERENCE_THRESHOLD => v = g.sum
                /\ g.top > INTERFERENCE_THRESHOLD => v = INT_MAX
                /\ v \in 0..INTERFERENCE_THRESHOLD \/ v = INT_MAX

\* Both outcomes in one profile: a full sum above 0 and the sentinel.
C5_Witness ==
    /\ pc = "profile"
    /\ shift > 2
    /\ interference[1] > 0
    /\ interference[1] <= INTERFERENCE_THRESHOLD
    /\ interference[shift - 1] = INT_MAX

\* C6: the average wavelength is strictly positive and the frequency is
\* positive and finite: either no peak was recorded and the wavelength is
\* DEFAULT_VAL, or every recorded peak is at least PEAK_SEARCH_RANGE.
C6_WavelengthPositive ==
    pc \in {"freq", "push"} =>
        /\ avg_wavelength.n > 0
        /\ avg_wavelength.d > 0
        /\ scan.peak_count = 0 => avg_wavelength = Rat(DEFAULT_VAL, 1)
        /\ \A r \in 0..(scan.peak_count - 1) : scan.peaks[r] >= PEAK_SEARCH_RANGE
        /\ pc = "push" => (frequency.n > 0 /\ frequency.d > 0)

\* A frequency from recorded peaks, its wavelength no default.
C6_Witness ==
    /\ pc = "push"
    /\ scan.peak_count > 0
    /\ avg_wavelength # Rat(DEFAULT_VAL, 1)
    /\ frequency = RatDiv(Rat(FS, 1), avg_wavelength)
    /\ frequency.n > 0
    /\ frequency.d > 0

\* C9: a raw window shorter than NUM_SAMPLES + SMA_WIDTH is rejected: the
\* smoothing stage never reads it at an index past its end.
C9_ShortWindowRejected ==
    input.len < RawLen => oob = {}

\* The acq-th acquisition, complete.
Acquired(a) == [j \in 0..(RawLen - 1) |-> AdcSample(a, j)]

\* Indices of the private copy at which it is compared with the smoothing
\* of an acquisition.
SpotChecks == {0, SmaStride - 1, SmaStride, NUM_SAMPLES \div 2, NUM_SAMPLES - 1}

\* C7: the sample transfer never writes samples_buff while the smoothing
\* loop reads it: in the smoothing loop the channel is idle and the buffer
\* holds one whole acquisition; the channel is busy again only once the
\* loop has produced all NUM_SAMPLES smoothed samples; and from the restart
\* to the push the private copy is the smoothing of the acquisition that
\* had finished, whatever the transfer has written since.
C7_NoWriteWhileSmoothing ==
    /\ pc = "sma" =>
         /\ ~dma.busy
         /\ dma.trans_count = 0
         /\ samples_buff = Acquired(acq)
    /\ dma.busy =>
         /\ pc # "sma"
         /\ acq > 1 => i = NUM_SAMPLES
    /\ pc \in {"profile", "peaks", "scan", "avg", "freq", "push"} =>
         \A k \in SpotChecks :
             samples[k] = calculate_sma(k, Acquired(acq - 1), RawLen, 0) % 256

\* The second smoothing loop has finished, on the second acquisition.
C7_Witness ==
    /\ pc = "sma"
    /\ i = NUM_SAMPLES
    /\ acq = 2
    /\ runs = 1
    /\ samples_buff = Acquired(2)
    /\ samples_buff # Acquired(1)

\* C8: every completed pass of core 0 pushes exactly one value, and core 1
\* pops each value exactly once, in the order pushed: what was popped
\* followed by what the FIFO holds is what was pushed, one value per pass,
\* the r-th being the frequency of the r-th acquisition.
C8_FifoExactlyOnceInOrder ==
    /\ popped \o fifo = pushed
    /\ Len(fifo) <= FifoDepth
    /\ Len(pushed) = IF pc = "push" THEN runs - 1 ELSE runs
    /\ \A r \in 1..Len(pushed) : pushed[r] = Rat(FS, AdcPeriod(r))

\* All MaxRuns values pushed and popped, the handler about to find the FIFO
\* empty.
C8_Witness ==
    /\ Len(popped) = MaxRuns
    /\ popped = pushed
    /\ fifo = <<>>
    /\ pc1 = "handler"
    /\ popped[1] # popped[2]
    /\ display = NoteRanges[BranchOf(Normalised(popped[MaxRuns]))].note

RatLeq(x, y) == ~RatLess(y, x)

\* C13: for every positive finite frequency the handler has popped, the two
\* normalisation loops terminate and leave the frequency inside
\* A3_bottom_range .. A4_bottom_range, it falls into one of the twelve note
\* ranges, and the display and the LEDs are those of that value.
C13_NormalisedInRange ==
    (popped # <<>> /\ pc1 # "spin") =>
        LET f == popped[Len(popped)]
        IN (f.n > 0 /\ f.d > 0) =>
             /\ ~NormaliseHangs(f)
             /\ RatLeq(A3_bottom_range, Normalised(f))
             /\ RatLeq(Normalised(f), A4_bottom_range)
             /\ BranchOf(Normalised(f)) \in 1..Len(NoteRanges)
             /\ display = NoteRanges[BranchOf(Normalised(f))].note
             /\ leds = update_leds(Normalised(f),
                                   NoteRanges[BranchOf(Normalised(f))].freq)

====
